---- MODULE Spec2Model ----
(***************************************************************************)
(* Bulk-operation orchestrators of the WhatsApp group creator bot:         *)
(* createMultipleGroups (src/src/group-creator.js) and sendBulkMessages    *)
(* (src/src/message-sender.js), with the helpers they call.                *)
(*                                                                         *)
(* One run of one orchestrator is modelled.  A step of the model is the    *)
(* code executed between two awaits: the call of the orchestrator up to    *)
(* its first await, then one step per settled timer, collaborator call or  *)
(* progress callback.  Text is a sequence of one-character strings.        *)
(*                                                                         *)
(* The commands handleCommand (commands.js) dispatches while that run is   *)
(* in progress, a second bulk command and !removedevice, are steps of the  *)
(* specification ConcurrentSpec; session and second hold their state.      *)
(* HourSpec measures the time the waits of a run take, in clock;           *)
(* LoggerSpec is the logger (logger.js) with its global.webInterfaceLogs.  *)
(***************************************************************************)
EXTENDS Integers, Sequences, FiniteSets, TLC

VARIABLES input, pc, loop, results, timer, inflight, trace, thrown,
          session, second, clock, webInterfaceLogs

vars == <<input, pc, loop, results, timer, inflight, trace, thrown,
          session, second, clock, webInterfaceLogs>>

(***************************************************************************)
(* Bounds of the model.                                                    *)
(***************************************************************************)
\* largest count handed to createMultipleGroups, largest small recipient list
MaxCount == 3
\* largest options.batchSize handed to createMultipleGroups
MaxBatchSize == 2
\* the long recipient lists of sendBulkMessages fill 1..MaxFullBatches batches,
\* or fill them and start one more
MaxFullBatches == 1

(***************************************************************************)
(* Program constants.                                                      *)
(***************************************************************************)
MAX_MESSAGES_PER_HOUR == 30
MIN_RANDOM_DELAY == 1000
MAX_RANDOM_DELAY == 6000
BATCH_SIZE == 26
BATCH_COOLDOWN == 300000
MAX_PARTICIPANTS == 256
DEFAULT_BATCH_SIZE == 10
DEFAULT_BATCH_COOLDOWN_SECONDS == 120
DEFAULT_DELAY_SECONDS == 3

(***************************************************************************)
(* Text helpers.                                                           *)
(***************************************************************************)
DigitChars == <<"0", "1", "2", "3", "4", "5", "6", "7", "8", "9">>

IsDigit(c) == \E d \in 1..10 : DigitChars[d] = c

\* "@c.us"
Suffix == <<"@", "c", ".", "u", "s">>

RECURSIVE NumberToString(_)
\* Number.prototype.toString() of a non-negative integer
NumberToString(n) ==
    IF n < 10 THEN <<DigitChars[n + 1]>>
    ELSE NumberToString(n \div 10) \o <<DigitChars[(n % 10) + 1]>>

RECURSIVE padStart(_, _, _)
\* String.prototype.padStart(width, fill) with a one-character fill
padStart(s, width, fill) ==
    IF Len(s) >= width THEN s ELSE padStart(<<fill>> \o s, width, fill)

\* String.prototype.includes
includes(s, sub) ==
    \E p \in 1..(Len(s) - Len(sub) + 1) : SubSeq(s, p, p + Len(sub) - 1) = sub

RECURSIVE split(_, _)
\* String.prototype.split on a one-character separator
split(s, sep) ==
    IF \A p \in 1..Len(s) : s[p] # sep THEN <<s>>
    ELSE LET p == CHOOSE q \in 1..Len(s) :
                      s[q] = sep /\ \A r \in 1..(q - 1) : s[r] # sep
         IN  <<SubSeq(s, 1, p - 1)>> \o split(SubSeq(s, p + 1, Len(s)), sep)

RECURSIVE trim(_)
\* String.prototype.trim (blanks at both ends)
trim(s) ==
    IF s = <<>> THEN s
    ELSE IF Head(s) = " " THEN trim(Tail(s))
    ELSE IF s[Len(s)] = " " THEN trim(SubSeq(s, 1, Len(s) - 1))
    ELSE s

\* number.replace(/[^0-9]/g, '')
StripNonDigits(s) == SelectSeq(s, IsDigit)

\* number.match(/^\d+@c\.us$/)
MatchesIdentifier(s) ==
    /\ Len(s) > Len(Suffix)
    /\ SubSeq(s, Len(s) - Len(Suffix) + 1, Len(s)) = Suffix
    /\ \A p \in 1..(Len(s) - Len(Suffix)) : IsDigit(s[p])

RECURSIVE MapNormalize(_)
\* the normalising .map of parseParticipants
MapNormalize(parts) ==
    IF parts = <<>> THEN <<>>
    ELSE LET normalized == StripNonDigits(Head(parts))
         IN  <<IF includes(normalized, Suffix) THEN normalized
               ELSE normalized \o Suffix>> \o MapNormalize(Tail(parts))

RECURSIVE MapTrim(_)
MapTrim(parts) ==
    IF parts = <<>> THEN <<>> ELSE <<trim(Head(parts))>> \o MapTrim(Tail(parts))

NonEmpty(s) == Len(s) > 0

parseParticipants(participantsString) ==
    LET parts == IF includes(participantsString, <<",">>)
                 THEN split(participantsString, ",")
                 ELSE <<participantsString>>
    IN  MapNormalize(SelectSeq(MapTrim(parts), NonEmpty))

(***************************************************************************)
(* Inputs of a run.  An optional argument is <<>> when absent and <<v>>    *)
(* when given.                                                             *)
(***************************************************************************)
Absent == <<>>

Given(v) == <<v>>

\* options.x || dflt  (undefined and 0 are both falsy)
OrDefault(opt, dflt) == IF opt # Absent /\ opt[1] # 0 THEN opt[1] ELSE dflt

\* options.padNumbers || false
OrFalse(opt) == IF opt # Absent THEN opt[1] ELSE FALSE

\* a default parameter value: only undefined is replaced
ParamDefault(opt, dflt) == IF opt # Absent THEN opt[1] ELSE dflt

\* the settings object of createMultipleGroups
Settings(options) ==
    [startingNumber       |-> OrDefault(options.startingNumber, 1),
     delaySeconds         |-> OrDefault(options.delaySeconds, 0),
     padNumbers           |-> OrFalse(options.padNumbers),
     batchSize            |-> OrDefault(options.batchSize, DEFAULT_BATCH_SIZE),
     batchCooldownSeconds |-> OrDefault(options.batchCooldownSeconds,
                                        DEFAULT_BATCH_COOLDOWN_SECONDS)]

\* mutant: only !client is tested
ClientMissing(client) == client = "missing"

\* !client || !client.info
ClientNotReady(client) == client = "missing" \/ client = "noinfo"

ErrNotReady == "WhatsApp client is not ready. Please try again."

ErrNoParticipants == "No participants provided"

ErrTooMany == "Too many participants. WhatsApp allows a maximum of 256 participants."

ErrInvalidNumbers == "Invalid phone numbers detected"

NoError == ""

\* mutant: the ceiling of 256 participants is not tested
validateParticipantsNoCeiling(participants) ==
    IF Len(participants) = 0 THEN ErrNoParticipants
    ELSE IF \E p \in 1..Len(participants) : ~MatchesIdentifier(participants[p])
         THEN ErrInvalidNumbers
    ELSE NoError

\* the message of the error validateParticipants throws, NoError when it returns
validateParticipants(participants) ==
    IF Len(participants) = 0 THEN ErrNoParticipants
    ELSE IF Len(participants) > MAX_PARTICIPANTS THEN ErrTooMany
    ELSE IF \E p \in 1..Len(participants) : ~MatchesIdentifier(participants[p])
         THEN ErrInvalidNumbers
    ELSE NoError

(***************************************************************************)
(* Math.random() is drawn from a few fractions <<numerator, denominator>>  *)
(* of [0, 1): its least value, a middle one and one just below 1.          *)
(***************************************************************************)
RandomDraws == {<<0, 1>>, <<1, 2>>, <<4999, 5000>>}

\* Math.floor(delay * (0.5 + Math.random())) after the stepped base delay
\* mutant: the base delay steps up at the thresholds, not after them
getRateLimitStepsAtThreshold(count, r) ==
    LET d1 == 3000
        d2 == IF count >= 10 THEN 5000 ELSE d1
        d3 == IF count >= 20 THEN 8000 ELSE d2
        d4 == IF count >= 30 THEN 12000 ELSE d3
    IN  (d4 * (r[2] + 2 * r[1])) \div (2 * r[2])

getRateLimit(count, r) ==
    LET d1 == 3000
        d2 == IF count > 10 THEN 5000 ELSE d1
        d3 == IF count > 20 THEN 8000 ELSE d2
        d4 == IF count > 30 THEN 12000 ELSE d3
    IN  (d4 * (r[2] + 2 * r[1])) \div (2 * r[2])

\* baseDelay + Math.floor(Math.random() * (MAX - MIN) + MIN)
\* mutant: the base delay without the random offset
getRandomizedDelayWithoutOffset(baseDelaySeconds, r) == baseDelaySeconds * 1000

getRandomizedDelay(baseDelaySeconds, r) ==
    LET baseDelay == baseDelaySeconds * 1000
        randomOffset ==
            (r[1] * (MAX_RANDOM_DELAY - MIN_RANDOM_DELAY)) \div r[2] + MIN_RANDOM_DELAY
    IN  baseDelay + randomOffset

(***************************************************************************)
(* The content variator.  The Cyrillic look-alikes and the zero-width      *)
(* code points are written by their code point.                            *)
(***************************************************************************)
\* mutant: the letter put for "o" is not its look-alike
MESSAGE_VARIATIONS_OtherLetter ==
    << [append |-> <<>>], [append |-> <<" ">>], [append |-> <<".">>],
       [prepend |-> <<>>], [prepend |-> <<" ">>],
       [replace |-> "a", with |-> "U+0430"],
       [replace |-> "e", with |-> "U+0435"],
       [replace |-> "o", with |-> "U+0431"],
       [invisible |-> "U+200B"], [invisible |-> "U+200C"] >>

MESSAGE_VARIATIONS ==
    << [append |-> <<>>],
       [append |-> <<" ">>],
       [append |-> <<".">>],
       [prepend |-> <<>>],
       [prepend |-> <<" ">>],
       [replace |-> "a", with |-> "U+0430"],
       [replace |-> "e", with |-> "U+0435"],
       [replace |-> "o", with |-> "U+043E"],
       [invisible |-> "U+200B"],
       [invisible |-> "U+200C"] >>

\* String.prototype.replace(string, string): the first occurrence only
\* mutant: the text after the first occurrence is lost
ReplaceFirstDropsRest(s, target, with) ==
    IF \A p \in 1..Len(s) : s[p] # target THEN s
    ELSE LET p == CHOOSE q \in 1..Len(s) :
                      s[q] = target /\ \A r \in 1..(q - 1) : s[r] # target
         IN  SubSeq(s, 1, p - 1) \o <<with>>

\* mutant: every occurrence is replaced
ReplaceEvery(s, target, with) ==
    [p \in 1..Len(s) |-> IF s[p] = target THEN with ELSE s[p]]

ReplaceFirst(s, target, with) ==
    IF \A p \in 1..Len(s) : s[p] # target THEN s
    ELSE LET p == CHOOSE q \in 1..Len(s) :
                      s[q] = target /\ \A r \in 1..(q - 1) : s[r] # target
         IN  SubSeq(s, 1, p - 1) \o <<with>> \o SubSeq(s, p + 1, Len(s))

\* the values Math.floor(Math.random() * n) can take
FloorRandomTimes(n) == IF n <= 0 THEN {0} ELSE 0..(n - 1)

\* addMessageVariation with its two draws: the rule index (0-based) and the
\* position of the invisible character
addMessageVariation(originalMessage, ruleIndex, position) ==
    LET variation == MESSAGE_VARIATIONS[ruleIndex + 1]
    IN  IF "append" \in DOMAIN variation THEN originalMessage \o variation.append
        ELSE IF "prepend" \in DOMAIN variation THEN variation.prepend \o originalMessage
        ELSE IF "replace" \in DOMAIN variation
             THEN ReplaceFirst(originalMessage, variation.replace, variation.with)
        ELSE SubSeq(originalMessage, 1, position)
                 \o <<variation.invisible>>
                 \o SubSeq(originalMessage, position + 1, Len(originalMessage))

(***************************************************************************)
(* Quantities both orchestrators compute from their arguments.             *)
(***************************************************************************)
IsGroups == input.kind = "groups"

\* count, or recipients.length
UnitCount == IF IsGroups THEN input.count ELSE Len(input.ids)

settings == Settings(input.options)

\* settings.batchSize, or ANTI_BAN.BATCH_SIZE
BatchSize == IF IsGroups THEN settings.batchSize ELSE BATCH_SIZE

Min(a, b) == IF a <= b THEN a ELSE b

\* Math.ceil(n / d), d # 0
Ceil(n, d) == IF d > 0 THEN -((-n) \div d) ELSE -(n \div (-d))

totalBatches == Ceil(UnitCount, BatchSize)

batchStart(batchIndex) == batchIndex * BatchSize

batchEnd(batchIndex) == Min(batchStart(batchIndex) + BatchSize, UnitCount)

currentBatchSize(batchIndex) == batchEnd(batchIndex) - batchStart(batchIndex)

groupNumber(currentIndex) == settings.startingNumber + currentIndex

maxDigits == Len(NumberToString(settings.startingNumber + input.count - 1))

formattedNumber(currentIndex) ==
    IF settings.padNumbers
    THEN padStart(NumberToString(groupNumber(currentIndex)), maxDigits, "0")
    ELSE NumberToString(groupNumber(currentIndex))

\* `${groupPrefix} ${formattedNumber}`
groupName(currentIndex) == input.groupPrefix \o <<" ">> \o formattedNumber(currentIndex)

\* the pacing wait before the unit at currentIndex > 0, in milliseconds
waitTime(currentIndex, r) ==
    IF IsGroups
    THEN IF settings.delaySeconds > 0
         THEN settings.delaySeconds * 1000
         ELSE getRateLimit(currentIndex + 1, r)
    ELSE getRandomizedDelay(ParamDefault(input.delaySeconds, DEFAULT_DELAY_SECONDS), r)

\* the wait between two batches, in milliseconds
cooldownMs == IF IsGroups THEN settings.batchCooldownSeconds * 1000 ELSE BATCH_COOLDOWN

(***************************************************************************)
(* The result aggregator: the try block after the collaborator call has    *)
(* settled, and its catch block.                                           *)
(***************************************************************************)
ErrCollaborator == "collaborator error"

ErrTypeError == "Cannot read properties of undefined (reading '_serialized')"

ErrCallback == "progress callback error"

\* the identity of the unit at currentIndex in its outcome record
UnitIdentity(currentIndex) ==
    IF IsGroups
    THEN [name |-> groupName(currentIndex), number |-> groupNumber(currentIndex)]
    ELSE [recipient |-> input.ids[currentIndex + 1]]

SuccessRecord(currentIndex, id) ==
    IF IsGroups
    THEN [name |-> groupName(currentIndex), number |-> groupNumber(currentIndex),
          id |-> id, success |-> TRUE]
    ELSE [recipient |-> input.ids[currentIndex + 1], success |-> TRUE, messageId |-> id]

FailureRecord(currentIndex, error) ==
    IF IsGroups
    THEN [name |-> groupName(currentIndex), number |-> groupNumber(currentIndex),
          success |-> FALSE, error |-> error]
    ELSE [recipient |-> input.ids[currentIndex + 1], success |-> FALSE, error |-> error]

\* mutant: the catch block counts the failure and appends no record
CatchWithoutRecord(res, currentIndex, error) == [res EXCEPT !.failed = @ + 1]

\* the catch block: results.failed++ and the failure record
Catch(res, currentIndex, error) ==
    [res EXCEPT !.failed = @ + 1,
                !.log = Append(@, FailureRecord(currentIndex, error))]

\* the statements after the await: results.success++, then the push of a record
\* whose literal reads the identifier of the handle; a handle without one
\* makes that read throw into the catch block
Resolved(res, currentIndex, handle) ==
    LET counted == [res EXCEPT !.success = @ + 1]
    IN  IF "id" \in DOMAIN handle
        THEN [counted EXCEPT !.log = Append(@, SuccessRecord(currentIndex, handle.id))]
        ELSE Catch(counted, currentIndex, ErrTypeError)

\* results after the collaborator call for the unit at currentIndex settled
Aggregate(res, currentIndex, outcome) ==
    IF outcome = "ok" THEN Resolved(res, currentIndex, [id |-> currentIndex + 1])
    ELSE IF outcome = "noid" THEN Resolved(res, currentIndex, [raw |-> "string"])
    ELSE Catch(res, currentIndex, ErrCollaborator)

\* the per-unit progress event
ProgressEvent(res, batchIndex, i) ==
    LET currentIndex == batchStart(batchIndex) + i
    IN  IF IsGroups
        THEN [current |-> currentIndex + 1, total |-> input.count,
              success |-> res.success, failed |-> res.failed,
              currentBatch |-> batchIndex + 1, totalBatches |-> totalBatches,
              batchProgress |-> i + 1, batchSize |-> currentBatchSize(batchIndex)]
        ELSE [current |-> currentIndex + 1, total |-> Len(input.ids),
              success |-> res.success, failed |-> res.failed,
              lastRecipient |-> input.ids[currentIndex + 1],
              currentBatch |-> batchIndex + 1, totalBatches |-> totalBatches]

\* the cooldown event after a batch that is not the last
CooldownEvent(res, batchIndex) ==
    [current |-> batchEnd(batchIndex), total |-> UnitCount,
     success |-> res.success, failed |-> res.failed,
     cooldown |-> TRUE,
     cooldownSeconds |-> IF IsGroups THEN settings.batchCooldownSeconds
                         ELSE BATCH_COOLDOWN \div 1000,
     nextBatch |-> batchIndex + 2, totalBatches |-> totalBatches]

(***************************************************************************)
(* Control flow between two awaits.  Each operator sets pc, loop, timer,   *)
(* inflight and trace; tr is the trace so far.                             *)
(***************************************************************************)
At(batchIndex, i) == [batchIndex |-> batchIndex, i |-> i]

\* return results
Return(batchIndex, tr) ==
    /\ pc' = "returned"
    /\ loop' = At(batchIndex, 0)
    /\ timer' = Absent
    /\ inflight' = Absent
    /\ trace' = tr

\* an error leaves the orchestrator
Throw(error) ==
    /\ pc' = "thrown"
    /\ thrown' = error
    /\ timer' = Absent
    /\ inflight' = Absent
    /\ UNCHANGED <<loop, results, trace>>

\* mutant: the call is not awaited, the loop goes on to the next unit of the
\* batch while the call is in flight
IssueCallWithoutAwait(batchIndex, i, tr) ==
    LET currentIndex == batchStart(batchIndex) + i
        more == i + 1 < currentBatchSize(batchIndex)
    IN  /\ pc' = IF more THEN "pacing" ELSE "calling"
        /\ loop' = IF more THEN At(batchIndex, i + 1) ELSE At(batchIndex, i)
        /\ timer' = IF more THEN Given(0) ELSE Absent
        /\ trace' = Append(tr, [t |-> "call", unit |-> currentIndex + 1])
        /\ IF IsGroups
           THEN inflight' = Given([op |-> "createGroup",
                                   name |-> groupName(currentIndex),
                                   participants |-> input.ids])
           ELSE inflight' = Given([op |-> "sendMessage",
                                   recipient |-> input.ids[currentIndex + 1],
                                   text |-> input.message])

\* await client.createGroup(...) / await client.sendMessage(...)
IssueCall(batchIndex, i, tr) ==
    LET currentIndex == batchStart(batchIndex) + i
    IN  /\ pc' = "calling"
        /\ loop' = At(batchIndex, i)
        /\ timer' = Absent
        /\ trace' = Append(tr, [t |-> "call", unit |-> currentIndex + 1])
        /\ IF IsGroups
           THEN inflight' = Given([op |-> "createGroup",
                                   name |-> groupName(currentIndex),
                                   participants |-> input.ids])
           ELSE \E ruleIndex \in FloorRandomTimes(Len(MESSAGE_VARIATIONS)),
                   position \in FloorRandomTimes(Len(input.message)) :
                    inflight' = Given([op |-> "sendMessage",
                                       recipient |-> input.ids[currentIndex + 1],
                                       text |-> addMessageVariation(
                                                    input.message, ruleIndex, position)])

\* mutant: the first unit of every batch is attempted without a pacing wait
EnterUnitNoWaitAtBatchStart(batchIndex, i, tr) ==
    LET currentIndex == batchStart(batchIndex) + i
    IN  IF i > 0
        THEN \E r \in RandomDraws :
                /\ pc' = "pacing"
                /\ loop' = At(batchIndex, i)
                /\ timer' = Given(waitTime(currentIndex, r))
                /\ inflight' = Absent
                /\ trace' = Append(tr, [t |-> "wait", what |-> "pacing",
                                        unit |-> currentIndex + 1])
        ELSE IssueCall(batchIndex, i, tr)

\* the top of the inner loop body: the pacing wait of every unit but the first
EnterUnit(batchIndex, i, tr) ==
    LET currentIndex == batchStart(batchIndex) + i
    IN  IF currentIndex > 0
        THEN \E r \in RandomDraws :
                /\ pc' = "pacing"
                /\ loop' = At(batchIndex, i)
                /\ timer' = Given(waitTime(currentIndex, r))
                /\ inflight' = Absent
                /\ trace' = Append(tr, [t |-> "wait", what |-> "pacing",
                                        unit |-> currentIndex + 1])
        ELSE IssueCall(batchIndex, i, tr)

\* the head of the batch loop
EnterBatch(batchIndex, tr) ==
    IF batchIndex < totalBatches /\ 0 < currentBatchSize(batchIndex)
    THEN EnterUnit(batchIndex, 0, tr)
    ELSE Return(batchIndex, tr)

\* await delay(cooldownMs)
StartCooldown(batchIndex, tr) ==
    /\ pc' = "cooldown"
    /\ loop' = At(batchIndex, currentBatchSize(batchIndex))
    /\ timer' = Given(cooldownMs)
    /\ inflight' = Absent
    /\ trace' = Append(tr, [t |-> "wait", what |-> "cooldown",
                            unit |-> batchEnd(batchIndex)])

\* mutant: the cooldown follows the last batch too
EndOfBatchAlwaysCooldown(batchIndex, tr) ==
    IF batchIndex < totalBatches
    THEN IF input.hasCallback
         THEN /\ pc' = "cooldownEvent"
              /\ loop' = At(batchIndex, currentBatchSize(batchIndex))
              /\ timer' = Absent
              /\ inflight' = Absent
              /\ trace' = Append(tr, [t |-> "event",
                                      ev |-> CooldownEvent(results', batchIndex)])
         ELSE StartCooldown(batchIndex, tr)
    ELSE EnterBatch(batchIndex + 1, tr)

\* after the inner loop: the cooldown of every batch but the last
EndOfBatch(batchIndex, tr) ==
    IF batchIndex < totalBatches - 1
    THEN IF input.hasCallback
         THEN /\ pc' = "cooldownEvent"
              /\ loop' = At(batchIndex, currentBatchSize(batchIndex))
              /\ timer' = Absent
              /\ inflight' = Absent
              /\ trace' = Append(tr, [t |-> "event",
                                      ev |-> CooldownEvent(results', batchIndex)])
         ELSE StartCooldown(batchIndex, tr)
    ELSE EnterBatch(batchIndex + 1, tr)

\* mutant: the loops are left after a unit that failed
AfterUnitStopsOnFailure(batchIndex, i, tr) ==
    IF ~results'.log[Len(results'.log)].success
    THEN Return(batchIndex, tr)
    ELSE IF i + 1 < currentBatchSize(batchIndex)
         THEN EnterUnit(batchIndex, i + 1, tr)
         ELSE EndOfBatch(batchIndex, tr)

\* the end of the inner loop body
AfterUnit(batchIndex, i, tr) ==
    IF i + 1 < currentBatchSize(batchIndex)
    THEN EnterUnit(batchIndex, i + 1, tr)
    ELSE EndOfBatch(batchIndex, tr)

(***************************************************************************)
(* The arguments a run is started with.                                    *)
(***************************************************************************)
Clients == {"missing", "noinfo", "ready"}

\* the identifier parseParticipants makes of the number 620 + k
GoodId(k) == parseParticipants(<<"+">> \o NumberToString(620 + k))[1]

\* what parseParticipants makes of "abc"
ParsedAbc == parseParticipants(<<"a", "b", "c">>)[1]

\* n identifiers, the one at position bad (if any) malformed
IdList(n, bad) == [k \in 1..n |-> IF k = bad THEN ParsedAbc ELSE GoodId(k)]

ParticipantLists ==
    { <<>>,
      IdList(2, 0),
      <<<<"a", "b", "c">>>>,
      IdList(2, 2),
      IdList(MAX_PARTICIPANTS + 1, 0) }

GroupOptions ==
    [startingNumber       : {Absent, Given(9)},
     delaySeconds         : {Absent, Given(2)},
     padNumbers           : {Absent, Given(TRUE)},
     batchSize            : {Absent} \cup {Given(b) : b \in (-1)..MaxBatchSize},
     batchCooldownSeconds : {Absent, Given(0), Given(7)}]

NoOptions ==
    [startingNumber |-> Absent, delaySeconds |-> Absent, padNumbers |-> Absent,
     batchSize |-> Absent, batchCooldownSeconds |-> Absent]

GroupInputs ==
    [kind : {"groups"}, client : Clients, count : 0..MaxCount,
     ids : ParticipantLists, options : GroupOptions, groupPrefix : {<<"G">>},
     message : {<<>>}, delaySeconds : {Absent}, hasCallback : BOOLEAN]

\* a count beyond the last threshold of getRateLimit, with the default options
LongGroupInputs ==
    [kind : {"groups"}, client : {"ready"}, count : {31},
     ids : {IdList(2, 0)}, options : {NoOptions}, groupPrefix : {<<"G">>},
     message : {<<>>}, delaySeconds : {Absent}, hasCallback : BOOLEAN]

\* short recipient lists, with every kind of client and of delay argument
ShortMessageInputs ==
    [kind : {"messages"}, client : Clients, count : {0},
     ids : {IdList(n, bad) : n \in 0..MaxCount, bad \in {0, 1}},
     options : {NoOptions}, groupPrefix : {<<>>},
     message : {<<"a", "b", "a">>}, delaySeconds : {Absent, Given(0)},
     hasCallback : BOOLEAN]

\* recipient lists of more than one batch
LongMessageInputs ==
    [kind : {"messages"}, client : {"ready"}, count : {0},
     ids : {IdList(b * BATCH_SIZE + r, 0) :
                b \in 1..MaxFullBatches, r \in {0, 1}},
     options : {NoOptions}, groupPrefix : {<<>>},
     message : {<<"a", "b", "a">>}, delaySeconds : {Absent},
     hasCallback : BOOLEAN]

MessageInputs == ShortMessageInputs \cup LongMessageInputs

\* collaborator calls of one run that may fail: any of them in a run over at
\* most MaxCount units, none in a run over a long recipient list
FailureBudget == IF UnitCount > MaxCount THEN 0 ELSE UnitCount

NoResults == [success |-> 0, failed |-> 0, log |-> <<>>]

\* the session of the shared client: linked, not logged out
Linked == [logout |-> Absent]

\* no time has passed since the run was started; waited is the length of the
\* trace when the wait last started had run out
NoTime == [now |-> 0, waited |-> 0]

\* no second bulk command has been received
NoSecond == [pc |-> "none", unit |-> 0, calledAt |-> <<>>]

Init ==
    /\ input \in GroupInputs \cup LongGroupInputs \cup MessageInputs
    /\ pc = "idle"
    /\ loop = At(0, 0)
    /\ results = NoResults
    /\ timer = Absent
    /\ inflight = Absent
    /\ trace = <<>>
    /\ thrown = NoError
    /\ session = Linked
    /\ second = NoSecond
    /\ clock = NoTime
    /\ webInterfaceLogs = <<>>

(***************************************************************************)
(* The steps of a run.                                                     *)
(***************************************************************************)
\* createMultipleGroups is called and runs to its first await
createMultipleGroups ==
    /\ pc = "idle"
    /\ input.kind = "groups"
    /\ IF ClientNotReady(input.client)
       THEN Throw(ErrNotReady)
       ELSE IF validateParticipants(input.ids) # NoError
            THEN Throw(validateParticipants(input.ids))
            ELSE /\ UNCHANGED <<results, thrown>>
                 /\ EnterBatch(0, trace)
    /\ UNCHANGED <<input, session, second, clock, webInterfaceLogs>>

\* sendBulkMessages is called and runs to its first await
sendBulkMessages ==
    /\ pc = "idle"
    /\ input.kind = "messages"
    /\ IF ClientNotReady(input.client)
       THEN Throw(ErrNotReady)
       ELSE /\ UNCHANGED <<results, thrown>>
            /\ EnterBatch(0, trace)
    /\ UNCHANGED <<input, session, second, clock, webInterfaceLogs>>

\* the pacing timer fires: the collaborator call of the unit is issued
PacingTimerFires ==
    /\ pc = "pacing"
    /\ UNCHANGED <<input, results, thrown, session, second, clock, webInterfaceLogs>>
    /\ IssueCall(loop.batchIndex, loop.i, trace)

\* the outcome of the settled call is recorded and the progress callback, if
\* any, is called
RecordOutcome(outcome) ==
    LET currentIndex == batchStart(loop.batchIndex) + loop.i
        res == Aggregate(results, currentIndex, outcome)
        tr == trace \o <<[t |-> "settled", unit |-> currentIndex + 1,
                          outcome |-> outcome],
                         [t |-> "record", unit |-> currentIndex + 1]>>
    IN  /\ results' = res
        /\ UNCHANGED <<input, thrown, session, second, clock, webInterfaceLogs>>
        /\ IF input.hasCallback
           THEN /\ pc' = "progress"
                /\ loop' = loop
                /\ timer' = Absent
                /\ inflight' = Absent
                /\ trace' = Append(tr,
                       [t |-> "event",
                        ev |-> ProgressEvent(res, loop.batchIndex, loop.i)])
           ELSE AfterUnit(loop.batchIndex, loop.i, tr)

\* mutant: no catch block, the error of a rejected call leaves the run
UnitWithoutCatch(outcome) ==
    IF outcome = "reject"
    THEN Throw(ErrCollaborator) /\ UNCHANGED <<input, session, second, clock, webInterfaceLogs>>
    ELSE RecordOutcome(outcome)

\* the try/catch around the unit: whatever the call did is turned into a record
UnitTryCatch(outcome) == RecordOutcome(outcome)

\* the collaborator call settles: it resolves with a handle that has its
\* identifier, resolves with one that has none, or rejects
CollaboratorSettles ==
    /\ pc = "calling"
    /\ \E outcome \in {"ok", "noid", "reject"} :
          /\ outcome # "ok" => results.failed < FailureBudget
          /\ UnitTryCatch(outcome)

\* the awaited progress callback returns, or throws
ProgressCallbackSettles ==
    /\ pc = "progress"
    /\ UNCHANGED <<input, session, second, clock, webInterfaceLogs>>
    /\ \E threw \in BOOLEAN :
          IF threw
          THEN Throw(ErrCallback)
          ELSE /\ UNCHANGED <<results, thrown>>
               /\ AfterUnit(loop.batchIndex, loop.i, trace)

\* the awaited cooldown callback returns, or throws
CooldownCallbackSettles ==
    /\ pc = "cooldownEvent"
    /\ UNCHANGED <<input, session, second, clock, webInterfaceLogs>>
    /\ \E threw \in BOOLEAN :
          IF threw
          THEN Throw(ErrCallback)
          ELSE /\ UNCHANGED <<results, thrown>>
               /\ StartCooldown(loop.batchIndex, trace)

\* the cooldown timer fires: the next batch starts
CooldownTimerFires ==
    /\ pc = "cooldown"
    /\ UNCHANGED <<input, results, thrown, session, second, clock, webInterfaceLogs>>
    /\ EnterBatch(loop.batchIndex + 1, trace)

Next ==
    \/ createMultipleGroups
    \/ sendBulkMessages
    \/ PacingTimerFires
    \/ CollaboratorSettles
    \/ ProgressCallbackSettles
    \/ CooldownCallbackSettles
    \/ CooldownTimerFires

Spec == Init /\ [][Next]_vars

\* every timer, collaborator call and callback eventually settles
FairSpec == Spec /\ WF_vars(Next)

(***************************************************************************)
(* Commands dispatched while the run is in progress.  handleCommand and    *)
(* POST /api/send-command hand every command to its handler at once, with  *)
(* the one client of the process; the handlers share no lock or queue.     *)
(***************************************************************************)
\* units of the second bulk run
SecondUnits == 2

runVars == <<input, pc, loop, results, timer, inflight, trace, thrown>>

\* the orchestrator has been called and has neither returned nor thrown
InProgress == pc \notin {"idle", "returned", "thrown"}

\* the runs during which further commands are received
ConcurrentInputs ==
    { in \in GroupInputs \cup ShortMessageInputs :
        /\ in.client = "ready"
        /\ in.ids = IdList(2, 0)
        /\ in.delaySeconds = Absent
        /\ in.kind = "groups" =>
              /\ in.count = 3
              /\ in.options = [NoOptions EXCEPT !.batchSize = Given(2)] }

ConcurrentInit == Init /\ input \in ConcurrentInputs

\* a second bulk command is dispatched while the run is in progress: its
\* handler parses it and awaits message.reply
handleSecondCommand ==
    /\ InProgress
    /\ second.pc = "none"
    /\ second' = [second EXCEPT !.pc = "replying"]
    /\ UNCHANGED <<runVars, session, clock, webInterfaceLogs>>

\* the collaborator call of the next unit of the second run, on the same client
SecondIssueCall ==
    second' = [second EXCEPT !.pc = "calling",
                             !.unit = @ + 1,
                             !.calledAt = Append(@, [during |-> pc,
                                                     calls |-> Len(SelectSeq(trace,
                                                         LAMBDA e : e.t = "call"))])]

\* the reply has settled: the orchestrator of the second command is called,
\* finds the client ready and issues the call of its first unit
SecondRunStarts ==
    /\ second.pc = "replying"
    /\ SecondIssueCall
    /\ UNCHANGED <<runVars, session, clock, webInterfaceLogs>>

\* the call of the second run settles: its pacing wait starts, or it returns
SecondCollaboratorSettles ==
    /\ second.pc = "calling"
    /\ second' = [second EXCEPT
                     !.pc = IF second.unit < SecondUnits THEN "pacing" ELSE "returned"]
    /\ UNCHANGED <<runVars, session, clock, webInterfaceLogs>>

SecondPacingTimerFires ==
    /\ second.pc = "pacing"
    /\ SecondIssueCall
    /\ UNCHANGED <<runVars, session, clock, webInterfaceLogs>>

\* !removedevice is dispatched while the run is in progress and
\* client.logout() settles; nothing of the run is touched
handleRemoveDevice ==
    /\ InProgress
    /\ session.logout = Absent
    /\ session' = [logout |-> Given([during |-> pc,
                                     calls |-> Len(SelectSeq(trace,
                                                   LAMBDA e : e.t = "call")),
                                     records |-> Len(results.log)])]
    /\ UNCHANGED <<runVars, second, clock, webInterfaceLogs>>

ConcurrentNext ==
    \/ Next
    \/ handleSecondCommand
    \/ SecondRunStarts
    \/ SecondCollaboratorSettles
    \/ SecondPacingTimerFires
    \/ handleRemoveDevice

ConcurrentSpec == ConcurrentInit /\ [][ConcurrentNext]_vars

(***************************************************************************)
(* The pacing functions on their own: getRandomizedDelay and getRateLimit  *)
(* are called with an argument and a draw of Math.random(); the duration   *)
(* returned is kept in timer.                                              *)
(***************************************************************************)
\* the delaySeconds arguments are -MaxDelaySeconds..MaxDelaySeconds
MaxDelaySeconds == 3
\* the count arguments are -1..MaxRateCount
MaxRateCount == 32

\* nothing has run yet
Fresh ==
    /\ pc = "idle"
    /\ loop = At(0, 0)
    /\ results = NoResults
    /\ timer = Absent
    /\ inflight = Absent
    /\ trace = <<>>
    /\ thrown = NoError
    /\ session = Linked
    /\ second = NoSecond
    /\ clock = NoTime
    /\ webInterfaceLogs = <<>>

PacingInputs ==
    [kind : {"getRandomizedDelay"}, arg : (-MaxDelaySeconds)..MaxDelaySeconds]
        \cup [kind : {"getRateLimit"}, arg : (-1)..MaxRateCount]

PacingInit == input \in PacingInputs /\ Fresh

ApplyGetRandomizedDelay ==
    /\ pc = "idle"
    /\ input.kind = "getRandomizedDelay"
    /\ \E r \in RandomDraws : timer' = Given(getRandomizedDelay(input.arg, r))
    /\ pc' = "applied"
    /\ UNCHANGED <<input, loop, results, inflight, trace, thrown, session, second, clock, webInterfaceLogs>>

ApplyGetRateLimit ==
    /\ pc = "idle"
    /\ input.kind = "getRateLimit"
    /\ \E r \in RandomDraws : timer' = Given(getRateLimit(input.arg, r))
    /\ pc' = "applied"
    /\ UNCHANGED <<input, loop, results, inflight, trace, thrown, session, second, clock, webInterfaceLogs>>

PacingNext == ApplyGetRandomizedDelay \/ ApplyGetRateLimit

PacingSpec == PacingInit /\ [][PacingNext]_vars

(***************************************************************************)
(* addMessageVariation on its own: it is called with a message, draws a    *)
(* rule and, for an invisible character, a position; the text returned is  *)
(* kept in inflight together with the index of the rule drawn.             *)
(***************************************************************************)
\* longest message handed to addMessageVariation
MaxMessageLen == 2

\* the letters the replace rules look for, one they leave alone, and the two
\* characters the append and prepend rules add
Alphabet == {"a", "e", "o", "x", " ", "."}

Messages == UNION {[1..n -> Alphabet] : n \in 0..MaxMessageLen}

VariatorInputs == [kind : {"addMessageVariation"}, message : Messages]

VariatorInit == input \in VariatorInputs /\ Fresh

ApplyAddMessageVariation ==
    /\ pc = "idle"
    /\ input.kind = "addMessageVariation"
    /\ \E ruleIndex \in FloorRandomTimes(Len(MESSAGE_VARIATIONS)),
          position \in FloorRandomTimes(Len(input.message)) :
            inflight' = Given([op |-> "addMessageVariation",
                               ruleIndex |-> ruleIndex,
                               text |-> addMessageVariation(
                                            input.message, ruleIndex, position)])
    /\ pc' = "applied"
    /\ UNCHANGED <<input, loop, results, timer, trace, thrown, session, second, clock, webInterfaceLogs>>

VariatorNext == ApplyAddMessageVariation

VariatorSpec == VariatorInit /\ [][VariatorNext]_vars

(***************************************************************************)
(* The time a sendBulkMessages run takes.  clock.now is the sum of the     *)
(* pacing and cooldown waits that have run out, in milliseconds: the time  *)
(* since the run was started when collaborator calls settle at once, the   *)
(* fastest the run can be.  A timer fires when its wait has run out.       *)
(***************************************************************************)
HourMs == 60 * 60 * 1000

\* the largest delay the !bulkmessage handler accepts, in seconds
MAX_DELAY_SECONDS == 60

\* one recipient more than MAX_MESSAGES_PER_HOUR, the smallest and the
\* largest delay the handler accepts, no callback
HourInputs ==
    [kind : {"messages"}, client : {"ready"}, count : {0},
     ids : {IdList(MAX_MESSAGES_PER_HOUR + 1, 0)},
     options : {NoOptions}, groupPrefix : {<<>>},
     message : {<<"x">>}, delaySeconds : {Given(0), Given(MAX_DELAY_SECONDS)},
     hasCallback : {FALSE}]

HourInit == input \in HourInputs /\ Fresh

\* the wait running has not run out yet
Waiting == pc \in {"pacing", "cooldown"} /\ clock.waited # Len(trace)

\* the wait of the pending timer runs out
TimePasses ==
    /\ Waiting
    /\ clock' = [now |-> clock.now + timer[1], waited |-> Len(trace)]
    /\ UNCHANGED <<runVars, session, second, webInterfaceLogs>>

PacingTimerDue == ~Waiting /\ PacingTimerFires

CooldownTimerDue == ~Waiting /\ CooldownTimerFires

HourNext ==
    \/ sendBulkMessages
    \/ TimePasses
    \/ PacingTimerDue
    \/ CollaboratorSettles
    \/ CooldownTimerDue

HourSpec == HourInit /\ [][HourNext]_vars

(***************************************************************************)
(* The logger: every call of logger.info, error, warn or debug puts an     *)
(* entry at the head of global.webInterfaceLogs, which is cut to its first *)
(* MAX_WEB_LOGS entries.  The calls made are listed in trace; the k-th     *)
(* call logs the message number k, a string or an object, at the time k.   *)
(***************************************************************************)
MAX_WEB_LOGS == 50

\* calls of the logger in one behaviour
MaxLogCalls == 52
\* the levels and kinds of message of the calls repeat with a period of at
\* most MaxLogPeriod
MaxLogPeriod == 2

Levels == {"info", "error", "warn", "debug"}

LogCalls == [level : Levels, isObject : BOOLEAN]

LoggerInputs ==
    [kind : {"logger"},
     calls : UNION {[1..n -> LogCalls] : n \in 1..MaxLogPeriod}]

LoggerInit == input \in LoggerInputs /\ Fresh

\* the k-th message logged: a string, or an object
MessageOf(k, isObject) ==
    IF isObject THEN [object |-> k] ELSE <<"message", k>>

\* typeof message === 'object'
IsObject(message) == DOMAIN message = {"object"}

\* JSON.stringify(message)
JSONstringify(message) == <<"json", message.object>>

\* mutant: the entry is put at the end of the array
addToWebInterfaceLogsAtEnd(logs, timestamp, level, message) ==
    LET entry == [timestamp |-> timestamp, level |-> level,
                  message |-> IF IsObject(message)
                              THEN JSONstringify(message) ELSE message]
        pushed == Append(logs, entry)
    IN  IF Len(pushed) > MAX_WEB_LOGS THEN SubSeq(pushed, 1, MAX_WEB_LOGS) ELSE pushed

\* addToWebInterfaceLogs(level, message) at the time timestamp: the array after
addToWebInterfaceLogs(logs, timestamp, level, message) ==
    LET entry == [timestamp |-> timestamp, level |-> level,
                  message |-> IF IsObject(message)
                              THEN JSONstringify(message) ELSE message]
        unshifted == <<entry>> \o logs
    IN  IF Len(unshifted) > MAX_WEB_LOGS
        THEN SubSeq(unshifted, 1, MAX_WEB_LOGS)
        ELSE unshifted

\* the next call of the logger
NextLogCall == input.calls[(Len(trace) % Len(input.calls)) + 1]

\* the body shared by the four overridden methods
LoggerMethod(level) ==
    LET k == Len(trace) + 1
        message == MessageOf(k, NextLogCall.isObject)
    IN  /\ webInterfaceLogs' = addToWebInterfaceLogs(webInterfaceLogs, k, level, message)
        /\ trace' = Append(trace, [t |-> "log", level |-> level,
                                   isObject |-> NextLogCall.isObject, message |-> k])
        /\ UNCHANGED <<input, pc, loop, results, timer, inflight, thrown,
                       session, second, clock>>

loggerInfo ==
    /\ input.kind = "logger"
    /\ Len(trace) < MaxLogCalls
    /\ NextLogCall.level = "info"
    /\ LoggerMethod("info")

loggerError ==
    /\ input.kind = "logger"
    /\ Len(trace) < MaxLogCalls
    /\ NextLogCall.level = "error"
    /\ LoggerMethod("error")

loggerWarn ==
    /\ input.kind = "logger"
    /\ Len(trace) < MaxLogCalls
    /\ NextLogCall.level = "warn"
    /\ LoggerMethod("warn")

loggerDebug ==
    /\ input.kind = "logger"
    /\ Len(trace) < MaxLogCalls
    /\ NextLogCall.level = "debug"
    /\ LoggerMethod("debug")

LoggerNext == loggerInfo \/ loggerError \/ loggerWarn \/ loggerDebug

LoggerSpec == LoggerInit /\ [][LoggerNext]_vars

(***************************************************************************)
(* Observations on a run, used to state the properties.  The trace lists,  *)
(* in order, the pacing and cooldown waits started, the collaborator calls *)
(* issued, how each settled, the outcome records appended and the progress *)
(* events handed to the callback.                                          *)
(***************************************************************************)
IsCall(e) == e.t = "call"

IsSettled(e) == e.t = "settled"

IsEvent(e) == e.t = "event"

IsCooldownWait(e) == e.t = "wait" /\ e.what = "cooldown"

IsCooldownEvent(e) == e.t = "event" /\ "cooldown" \in DOMAIN e.ev

\* the units whose collaborator call was issued, in order
Calls == SelectSeq(trace, IsCall)

\* how the collaborator calls settled, in order
Settled == SelectSeq(trace, IsSettled)

Events == SelectSeq(trace, IsEvent)

CooldownWaits == SelectSeq(trace, IsCooldownWait)

CooldownEvents == SelectSeq(trace, IsCooldownEvent)

\* the calls were issued for the units 1, 2, ..., n in this order
CallsAreUnits(n) ==
    LET calls == Calls
    IN  Len(calls) = n /\ \A k \in 1..n : calls[k].unit = k

\* an identifier that is no run of digits followed by "@c.us"
Malformed(id) == id = <<"a", "b", "c">> \/ id = <<"@", "c", ".", "u", "s">>

\* C1: a run that passed the pre-loop checks and returned reports
\* success + failed = N.
C1_CountersAddUp ==
    pc = "returned" => results.success + results.failed = UnitCount

C3_FailureIsRecordedAndIsolated ==
    LET calls == Calls
        settled == Settled
        log == results.log
    IN  /\ thrown # ErrCollaborator
        /\ \A k \in 1..Len(calls) : calls[k].unit = k
        /\ Len(log) = Len(settled)
        /\ \A k \in 1..Len(settled) :
              /\ settled[k].unit = k
              /\ settled[k].outcome = "reject" =>
                    /\ log[k].success = FALSE
                    /\ log[k].error = ErrCollaborator
                    /\ IF IsGroups
                       THEN log[k].name = groupName(k - 1)
                       ELSE log[k].recipient = input.ids[k]
              /\ settled[k].outcome = "ok" => log[k].success = TRUE
        /\ (pc = "returned" /\ BatchSize > 0) =>
              Len(calls) = UnitCount /\ Len(settled) = UnitCount

\* the first of three units was rejected and the run has returned
C3_Witness ==
    /\ pc = "returned"
    /\ UnitCount = 3
    /\ Len(Settled) = 3
    /\ Settled[1].outcome = "reject"
    /\ Settled[3].outcome = "ok"
    /\ results.success = 2
    /\ results.failed = 1

\* C4: a valid run over N >= 1 units with batch size B > 0 is split into
\* ceil(N/B) contiguous batches: it waits for a cooldown exactly after the
\* units B, 2B, ... below N, which is ceil(N/B) - 1 times and never after the
\* last batch, so every batch but the last holds B units and the last holds
\* the rest; each cooldown is announced by one cooldown event to the
\* progress callback (none is emitted to a run that has no callback).
C4_BatchesAndCooldowns ==
    (pc = "returned" /\ BatchSize > 0 /\ UnitCount >= 1) =>
        LET B == BatchSize
            N == UnitCount
            batches == (N + B - 1) \div B
            lastSize == N - (batches - 1) * B
            waits == CooldownWaits
            events == CooldownEvents
        IN  /\ CallsAreUnits(N)
            /\ loop.batchIndex = batches
            /\ 1 <= lastSize /\ lastSize <= B
            /\ Len(waits) = batches - 1
            /\ \A j \in 1..Len(waits) : waits[j].unit = j * B
            /\ B >= N => Len(waits) = 0
            /\ Len(events) = IF input.hasCallback THEN batches - 1 ELSE 0
            /\ \A j \in 1..Len(events) :
                  /\ events[j].ev.current = j * B
                  /\ events[j].ev.nextBatch = j + 1
                  /\ events[j].ev.totalBatches = batches
            \* a cooldown wait stands between the last call of a batch and
            \* the first call of the next
            /\ \A p \in 1..Len(trace) :
                  IsCooldownWait(trace[p]) =>
                      /\ \A q \in 1..(p - 1) :
                            IsCall(trace[q]) => trace[q].unit <= trace[p].unit
                      /\ \A q \in (p + 1)..Len(trace) :
                            IsCall(trace[q]) => trace[q].unit > trace[p].unit

\* a run over BATCH_SIZE + 1 recipients has returned after two batches, one
\* cooldown wait and one cooldown event
C4_Witness ==
    /\ pc = "returned"
    /\ ~IsGroups
    /\ input.hasCallback
    /\ UnitCount = BATCH_SIZE + 1
    /\ Len(CooldownWaits) = 1
    /\ Len(CooldownEvents) = 1

\* the participant list is empty, longer than 256 or holds a malformed identifier
BadParticipants ==
    \/ Len(input.ids) = 0
    \/ Len(input.ids) > 256
    \/ \E p \in 1..Len(input.ids) : Malformed(input.ids[p])

\* C5: createMultipleGroups called with a participant list that is empty,
\* longer than 256 or holds a malformed identifier throws before the batch
\* loop: no createGroup call, no progress event, no outcome record.
C5_BadParticipantsRejected ==
    (IsGroups /\ BadParticipants /\ pc # "idle") =>
        /\ pc = "thrown"
        /\ thrown \in {ErrNotReady, ErrNoParticipants, ErrTooMany, ErrInvalidNumbers}
        /\ input.client = "ready" =>
              thrown = IF Len(input.ids) = 0 THEN ErrNoParticipants
                       ELSE IF Len(input.ids) > 256 THEN ErrTooMany
                       ELSE ErrInvalidNumbers
        /\ trace = <<>>
        /\ inflight = Absent
        /\ results = NoResults

\* a ready client was handed the list whose second identifier is "@c.us",
\* with a count and a callback, and the call has thrown
C5_Witness ==
    /\ IsGroups
    /\ input.client = "ready"
    /\ input.count >= 1
    /\ input.hasCallback
    /\ Len(input.ids) = 2
    /\ input.ids[2] = Suffix
    /\ pc = "thrown"
    /\ thrown = ErrInvalidNumbers

\* C6: sendBulkMessages called with a recipient list that holds a malformed
\* identifier never calls client.sendMessage.
C6_MalformedRecipientsRejected ==
    (~IsGroups /\ \E p \in 1..Len(input.ids) : Malformed(input.ids[p])) =>
        Len(Calls) = 0

\* C7: a run over an empty unit list does not return a result.
C7_EmptyRunAborted ==
    UnitCount = 0 => pc # "returned"

\* C8: createMultipleGroups called with a batch size of 0 or less attempts no
\* unit and returns no result.
C8_BadBatchSizeRejected ==
    (IsGroups /\ input.options.batchSize # Absent /\ input.options.batchSize[1] <= 0) =>
        /\ Len(Calls) = 0
        /\ pc # "returned"

\* C9: with a client that is missing or has no info, both orchestrators throw
\* at once: no collaborator call, no progress event, no outcome record.
C9_NotReadyRejected ==
    (input.client \in {"missing", "noinfo"} /\ pc # "idle") =>
        /\ pc = "thrown"
        /\ thrown = ErrNotReady
        /\ trace = <<>>
        /\ inflight = Absent
        /\ results = NoResults

\* sendBulkMessages has thrown for a client without info, recipients and a
\* callback at hand
C9_Witness ==
    /\ ~IsGroups
    /\ input.client = "noinfo"
    /\ Len(input.ids) >= 1
    /\ input.hasCallback
    /\ pc = "thrown"

\* the run passed the readiness check and the validation
PassedChecks ==
    /\ input.client = "ready"
    /\ IsGroups => ~BadParticipants

\* C10 as stated: once the loop has been entered nothing, a throwing progress
\* callback included, ends the run with an exception.
C10_NeverThrowsInLoop ==
    Len(trace) > 0 => pc # "thrown"

\* C10 amended: every run that passes the readiness check and the validation
\* eventually ends, given that every call, timer and callback settles; it
\* ends by returning its results unless the progress callback throws, the
\* only error that leaves the loop; a failing unit never does.
C10_EndsWithResultUnlessCallbackThrows ==
    /\ [](PassedChecks => (pc = "thrown" => thrown = ErrCallback /\ input.hasCallback))
    /\ [](PassedChecks /\ ~input.hasCallback => pc # "thrown")
    /\ (PassedChecks /\ pc = "idle") ~> (pc = "returned" \/ pc = "thrown")

\* a run with a callback has returned its results after a rejected unit and
\* a handle without identifier
C10_Witness ==
    /\ pc = "returned"
    /\ input.hasCallback
    /\ UnitCount = 3
    /\ \E j, k \in 1..Len(Settled) :
          Settled[j].outcome = "reject" /\ Settled[k].outcome = "noid"

\* the progress callback threw while handling the event of unit k
CallbackThrewAt(k) ==
    /\ pc = "thrown"
    /\ thrown = ErrCallback
    /\ Len(trace) > 0
    /\ IsEvent(trace[Len(trace)])
    /\ ~IsCooldownEvent(trace[Len(trace)])
    /\ trace[Len(trace)].ev.current = k

\* C11: when the progress callback throws while handling the event of unit
\* k the exception reaches the caller and the run state is whole: the log
\* holds exactly k records and success + failed = k.
C11_CallbackThrowLeavesStateWhole ==
    \A k \in 1..UnitCount :
        CallbackThrewAt(k) =>
            /\ Len(results.log) = k
            /\ results.success + results.failed = k

IsProgressEvent(e) == IsEvent(e) /\ ~IsCooldownEvent(e)

\* the step appends a collaborator call to the trace
CallIssued ==
    /\ Len(trace') > Len(trace)
    /\ IsCall(trace'[Len(trace')])

\* every call issued so far has settled, its outcome is recorded and the
\* progress callback, if there is one, has been called for it and returned
AllUnitsDone ==
    LET calls == Len(Calls)
    IN  /\ inflight = Absent
        /\ pc \notin {"calling", "progress", "cooldownEvent"}
        /\ Len(Settled) = calls
        /\ Len(results.log) = calls
        /\ input.hasCallback => Len(SelectSeq(trace, IsProgressEvent)) = calls

\* C12: within one run at most one collaborator call is in flight; the call
\* of unit k + 1 is issued only after the call of unit k has settled, its
\* outcome has been recorded and the progress callback has returned.
C12_OneCallInFlight ==
    /\ [](LET calls == Calls
              settled == Settled
          IN  /\ Len(settled) <= Len(calls)
              /\ Len(calls) <= Len(settled) + 1
              /\ (inflight # Absent) = (Len(calls) = Len(settled) + 1)
              /\ (inflight # Absent) = (pc = "calling")
              /\ \A k \in 1..Len(calls) : calls[k].unit = k
              /\ \A k \in 1..Len(settled) : settled[k].unit = k)
    /\ [][CallIssued => AllUnitsDone]_vars

\* the call of the third unit of a run with a callback is in flight after a
\* rejected call
C12_Witness ==
    /\ pc = "calling"
    /\ inflight # Absent
    /\ input.hasCallback
    /\ Len(Calls) = 3
    /\ \E k \in 1..Len(Settled) : Settled[k].outcome = "reject"

\* C13: a second bulk command received while a run on the same client is in
\* progress is rejected or held back until that run has ended: no
\* collaborator call of the second run is issued while the first is in
\* progress.
C13_RunsNeverInterleave ==
    \A k \in 1..Len(second.calledAt) :
        second.calledAt[k].during \in {"idle", "returned", "thrown"}

\* C14: after !removedevice has logged the client out while the run was
\* waiting between two units, the wait is abandoned and no further
\* collaborator call is issued; the outcomes recorded before are kept.
C14_LogoutStopsRun ==
    (session.logout # Absent /\ session.logout[1].during \in {"pacing", "cooldown"}) =>
        /\ pc \notin {"pacing", "cooldown"}
        /\ timer = Absent
        /\ Len(Calls) = session.logout[1].calls
        /\ Len(results.log) >= session.logout[1].records

\* the delaySeconds argument of sendBulkMessages, its default when left out
MessageDelaySeconds == ParamDefault(input.delaySeconds, DEFAULT_DELAY_SECONDS)

\* C15: in sendBulkMessages with a per-item delay of D >= 0 seconds the wait
\* before every unit after the first is D * 1000 + j milliseconds with an
\* integer jitter j, 1000 <= j < 6000; it is never exactly D * 1000.
C15_MessageWaitIsBasePlusJitter ==
    (~IsGroups /\ pc = "pacing" /\ MessageDelaySeconds >= 0) =>
        /\ timer # Absent
        /\ loop.i + batchStart(loop.batchIndex) > 0
        /\ LET j == timer[1] - MessageDelaySeconds * 1000
           IN  /\ j \in Int
               /\ MIN_RANDOM_DELAY <= j
               /\ j < MAX_RANDOM_DELAY
        /\ timer[1] # MessageDelaySeconds * 1000

\* sendBulkMessages with the default delay of 3 seconds waits 8999 ms, the
\* largest wait there is, before its third unit
C15_Witness ==
    /\ ~IsGroups
    /\ pc = "pacing"
    /\ input.delaySeconds = Absent
    /\ loop.i = 2
    /\ timer = Given(8999)

\* C16: in createMultipleGroups with a fixed delay options.delaySeconds =
\* D > 0 the wait before every unit after the first is D * 1000 ms plus a
\* jitter from 1000..6000 ms, so never D * 1000 itself.
C16_FixedGroupWaitHasJitter ==
    (IsGroups /\ settings.delaySeconds > 0 /\ pc = "pacing") =>
        /\ timer # Absent
        /\ LET j == timer[1] - settings.delaySeconds * 1000
           IN  MIN_RANDOM_DELAY <= j /\ j <= MAX_RANDOM_DELAY

\* C17: the pacing wait is never negative: getRandomizedDelay(delaySeconds)
\* >= 0 for every delaySeconds argument and every draw, and
\* getRateLimit(count) >= 0 for every count and every draw.
C17_WaitNeverNegative ==
    pc = "applied" => timer[1] >= 0

\* the stepped base delay before the k-th group
SteppedBase(k) ==
    IF k <= 10 THEN 3000
    ELSE IF k <= 20 THEN 5000
    ELSE IF k <= 30 THEN 8000
    ELSE 12000

\* C18: in createMultipleGroups without a fixed delay the wait w before the
\* k-th group, k >= 2, satisfies floor(base / 2) <= w < 1.5 * base for the
\* stepped base 3000 (k <= 10), 5000 (11..20), 8000 (21..30), 12000
\* (k > 30), which does not decrease in k.
C18_AdaptiveWaitWithinSteppedBase ==
    (IsGroups /\ ~(settings.delaySeconds > 0) /\ pc = "pacing") =>
        LET k == batchStart(loop.batchIndex) + loop.i + 1
            base == SteppedBase(k)
        IN  /\ k >= 2
            /\ timer # Absent
            /\ base \div 2 <= timer[1]
            /\ 2 * timer[1] < 3 * base
            /\ SteppedBase(k - 1) <= base

\* the wait before the 31st group is 17997 ms, just under 1.5 * 12000
C18_Witness ==
    /\ IsGroups
    /\ input.options.delaySeconds = Absent
    /\ pc = "pacing"
    /\ batchStart(loop.batchIndex) + loop.i + 1 = 31
    /\ timer = Given(17997)

\* the indices (0-based) of the rules that insert an invisible character
InvisibleRules ==
    {ruleIndex \in FloorRandomTimes(Len(MESSAGE_VARIATIONS)) :
        "invisible" \in DOMAIN MESSAGE_VARIATIONS[ruleIndex + 1]}

\* the message with the character c inserted at the offset
InsertedAt(message, offset, c) ==
    SubSeq(message, 1, offset) \o <<c>> \o SubSeq(message, offset + 1, Len(message))

\* C19: when addMessageVariation draws an invisible-character rule for a
\* message of length L the character can end up at every offset 0..L, the
\* offset L after the last character included; an empty message still
\* receives it.
C19_MarkerAtEveryOffset ==
    (input.kind = "addMessageVariation" /\ pc = "idle") =>
        \A ruleIndex \in InvisibleRules :
            \A offset \in 0..Len(input.message) :
                ENABLED (/\ ApplyAddMessageVariation
                         /\ inflight'[1].ruleIndex = ruleIndex
                         /\ inflight'[1].text =
                               InsertedAt(input.message, offset,
                                          MESSAGE_VARIATIONS[ruleIndex + 1].invisible))

\* C20: for every message and every rule of MESSAGE_VARIATIONS the text
\* addMessageVariation returns is at least as long as the message and at
\* most two characters longer, and is not empty when the message is not.
C20_VariationLengthBounded ==
    (input.kind = "addMessageVariation" /\ pc = "applied") =>
        /\ inflight # Absent
        /\ Len(input.message) <= Len(inflight[1].text)
        /\ Len(inflight[1].text) <= Len(input.message) + 2
        /\ Len(input.message) > 0 => Len(inflight[1].text) > 0

\* a replace rule has exchanged the first "a" of "xa" and kept the length
C20_Witness ==
    /\ input.kind = "addMessageVariation"
    /\ pc = "applied"
    /\ input.message = <<"x", "a">>
    /\ "replace" \in DOMAIN MESSAGE_VARIATIONS[inflight[1].ruleIndex + 1]
    /\ inflight[1].text = <<"x", "U+0430">>

\* the Latin letter a Cyrillic look-alike stands for, any other character
\* itself
Latin(c) ==
    CASE c = "U+0430" -> "a"
      [] c = "U+0435" -> "e"
      [] c = "U+043E" -> "o"
      [] OTHER -> c

IsZeroWidth(c) == c \in {"U+200B", "U+200C"}

RECURSIVE StripMarkers(_, _)
\* the text without the characters in markers and without zero-width
\* characters, its look-alikes mapped back to Latin letters
StripMarkers(text, markers) ==
    IF text = <<>> THEN <<>>
    ELSE IF Head(text) \in markers \/ IsZeroWidth(Head(text))
         THEN StripMarkers(Tail(text), markers)
         ELSE <<Latin(Head(text))>> \o StripMarkers(Tail(text), markers)

\* the message holds none of the characters the rules add
FreeOfMarkers(message) ==
    \A p \in 1..Len(message) :
        /\ message[p] \notin {" ", "."}
        /\ ~IsZeroWidth(message[p])
        /\ Latin(message[p]) = message[p]

C22_ProgressEventsInOrder ==
    input.hasCallback =>
        LET events == SelectSeq(trace, IsProgressEvent)
        IN  /\ \A k \in 1..Len(events) :
                  /\ events[k].ev.current = k
                  /\ events[k].ev.total = UnitCount
                  /\ events[k].ev.success + events[k].ev.failed = k
            /\ \A p \in 1..Len(trace) :
                  IsProgressEvent(trace[p]) =>
                      /\ p > 1
                      /\ trace[p - 1] = [t |-> "record", unit |-> trace[p].ev.current]
                      /\ \A q \in 1..p :
                            IsCall(trace[q]) => trace[q].unit <= trace[p].ev.current

\* the cooldown the caller configured, in milliseconds: the option given to
\* createMultipleGroups (what the code takes when none is given),
\* ANTI_BAN.BATCH_COOLDOWN in sendBulkMessages
ConfiguredCooldownMs ==
    IF IsGroups /\ input.options.batchCooldownSeconds # Absent
    THEN input.options.batchCooldownSeconds[1] * 1000
    ELSE cooldownMs

\* C23: with a progress callback, for every batch that is not the last there
\* is, between the progress event of its last unit and the first collaborator
\* call of the next batch, exactly one cooldown event (cooldown = true,
\* current = batchEnd, nextBatch = the 1-based number of the next batch) and
\* exactly one cooldown wait, of the configured duration; no cooldown event
\* or wait follows the last batch.
C23_OneCooldownBetweenBatches ==
    (input.hasCallback /\ BatchSize > 0) =>
        /\ \A q \in 1..Len(trace) :
              (IsCall(trace[q]) /\ trace[q].unit > 1
                   /\ (trace[q].unit - 1) % BatchSize = 0) =>
                  LET last == trace[q].unit - 1
                      from == CHOOSE p \in 1..q :
                                  IsProgressEvent(trace[p]) /\ trace[p].ev.current = last
                      between == (from + 1)..(q - 1)
                      events == {p \in between : IsCooldownEvent(trace[p])}
                      waits == {p \in between : IsCooldownWait(trace[p])}
                  IN  /\ \E p \in 1..q :
                            IsProgressEvent(trace[p]) /\ trace[p].ev.current = last
                      /\ Cardinality(events) = 1
                      /\ Cardinality(waits) = 1
                      /\ \A p \in events :
                            /\ trace[p].ev.cooldown
                            /\ trace[p].ev.current = last
                            /\ trace[p].ev.nextBatch = (last \div BatchSize) + 1
                      /\ \A p \in waits : trace[p].unit = last
        /\ \A p \in 1..Len(trace) :
              /\ IsCooldownWait(trace[p]) => trace[p].unit < UnitCount
              /\ IsCooldownEvent(trace[p]) => trace[p].ev.current < UnitCount
        /\ pc = "cooldown" => timer = Given(ConfiguredCooldownMs)

IsPacingWait(e) == e.t = "wait" /\ e.what = "pacing"

\* C24: the first unit of a run is attempted without a pacing wait; every
\* later unit, the first unit of every later batch included, is preceded by
\* exactly one pacing wait, which has ended when its collaborator call is
\* issued.
C24_OnePacingWaitBeforeLaterUnits ==
    /\ [](/\ \A q \in 1..Len(trace) :
                IsCall(trace[q]) =>
                    LET waits == {p \in 1..q : IsPacingWait(trace[p])
                                                  /\ trace[p].unit = trace[q].unit}
                    IN  IF trace[q].unit = 1
                        THEN waits = {}
                        ELSE waits = {q - 1}
          /\ \A p \in 1..Len(trace) :
                IsPacingWait(trace[p]) =>
                    /\ trace[p].unit > 1
                    /\ \A q \in 1..p : IsPacingWait(trace[q]) /\ q # p
                                            => trace[q].unit # trace[p].unit
          /\ pc = "pacing" =>
                /\ timer # Absent
                /\ inflight = Absent
                /\ IsPacingWait(trace[Len(trace)]))
    /\ [][(CallIssued /\ trace'[Len(trace')].unit > 1) =>
              (pc = "pacing" /\ timer # Absent)]_vars

\* the call of the first unit of the second batch of a sendBulkMessages run
\* is in flight, after the cooldown and its own pacing wait
C24_Witness ==
    /\ ~IsGroups
    /\ pc = "calling"
    /\ loop = At(1, 0)
    /\ Len(CooldownWaits) = 1
    /\ IsPacingWait(trace[Len(trace) - 1])
    /\ trace[Len(trace) - 1].unit = BATCH_SIZE + 1

\* the texts one rule of MESSAGE_VARIATIONS makes of the message: the message
\* itself, with a space or a dot added at its end, with a space added at its
\* start, with the first "a", "e" or "o" exchanged for its look-alike, or
\* with one zero-width character inserted
OneRuleTexts(message) ==
    {message, message \o <<" ">>, message \o <<".">>, <<" ">> \o message}
    \cup UNION {{[message EXCEPT ![p] = c[2]] :
                    p \in {q \in 1..Len(message) :
                              /\ message[q] = c[1]
                              /\ \A r \in 1..(q - 1) : message[r] # c[1]}} :
                 c \in {<<"a", "U+0430">>, <<"e", "U+0435">>, <<"o", "U+043E">>}}
    \cup {InsertedAt(message, offset, z) :
             offset \in 0..Len(message), z \in {"U+200B", "U+200C"}}

\* C25: every text handed to client.sendMessage in a sendBulkMessages run is
\* the original message changed by exactly one rule of MESSAGE_VARIATIONS:
\* the changes of earlier recipients are not carried along, and a replace
\* rule changes the first occurrence of its letter only (nothing when the
\* letter is absent).
C25_OneRulePerText ==
    (~IsGroups /\ input.kind = "messages" /\ inflight # Absent) =>
        /\ inflight[1].op = "sendMessage"
        /\ inflight[1].text \in OneRuleTexts(input.message)
        /\ inflight[1].recipient = input.ids[Len(Calls)]

\* the third recipient is sent "aba" with its first "a" exchanged, the second
\* "a" kept
C25_Witness ==
    /\ ~IsGroups
    /\ pc = "calling"
    /\ Len(Calls) = 3
    /\ input.message = <<"a", "b", "a">>
    /\ inflight[1].text = <<"U+0430", "b", "a">>

\* C26: createMultipleGroups honours a cooldown of 0: with
\* options.batchCooldownSeconds = 0 every cooldown wait lasts 0 ms and the
\* cooldown event reports cooldownSeconds = 0.
C26_ZeroCooldownHonoured ==
    (IsGroups /\ input.options.batchCooldownSeconds = Given(0)) =>
        /\ pc = "cooldown" => timer = Given(0)
        /\ (pc = "cooldownEvent" /\ Len(trace) > 0) =>
              trace[Len(trace)].ev.cooldownSeconds = 0

\* C27: when options.batchCooldownSeconds is not given to
\* createMultipleGroups the cooldown between two batches is 300 seconds, as
\* its documentation and the help text of !createmultiplegroups say.
C27_DefaultCooldownIs300 ==
    (IsGroups /\ input.options.batchCooldownSeconds = Absent) =>
        /\ pc = "cooldown" => timer = Given(300 * 1000)
        /\ (pc = "cooldownEvent" /\ Len(trace) > 0) =>
              trace[Len(trace)].ev.cooldownSeconds = 300

IsSuccessRecord(rec) == rec.success

IsFailureRecord(rec) == ~rec.success

\* C29: at every point of a run results.success is the number of records
\* with success = true and results.failed the number of records with
\* success = false, one record and one count per unit, also when the call
\* resolves with a handle that lacks its identifier.
C29_CountersMatchRecords ==
    /\ results.success = Len(SelectSeq(results.log, IsSuccessRecord))
    /\ results.failed = Len(SelectSeq(results.log, IsFailureRecord))
    /\ results.success + results.failed = Len(results.log)

\* C28: in a sendBulkMessages run, for every delaySeconds the handler allows
\* (0..60) and every jitter drawn, at most MAX_MESSAGES_PER_HOUR = 30
\* client.sendMessage calls are made within an hour; here for the first hour
\* of the run.
C28_AtMostThirtyCallsPerHour ==
    (~IsGroups /\ clock.now < HourMs) => Len(Calls) <= MAX_MESSAGES_PER_HOUR

\* C30: after any sequence of n logger calls global.webInterfaceLogs holds
\* min(50, n) entries, at most 50, the newest first: its j-th entry is that
\* of the j-th most recent call.
C30_WebLogsAreLastFiftyNewestFirst ==
    input.kind = "logger" =>
        LET n == Len(trace)
        IN  /\ Len(webInterfaceLogs) <= 50
            /\ Len(webInterfaceLogs) = Min(50, n)
            /\ \A j \in 1..Len(webInterfaceLogs) :
                  LET call == trace[n + 1 - j]
                      entry == webInterfaceLogs[j]
                  IN  /\ entry.level = call.level
                      /\ entry.timestamp = n + 1 - j
                      /\ entry.message = IF call.isObject
                                         THEN <<"json", call.message>>
                                         ELSE <<"message", call.message>>

\* 52 calls have been made, the last a logger.debug of an object: the array
\* holds the calls 52 down to 3
C30_Witness ==
    /\ input.kind = "logger"
    /\ Len(trace) = 52
    /\ Len(webInterfaceLogs) = 50
    /\ webInterfaceLogs[1] = [timestamp |-> 52, level |-> "debug",
                               message |-> <<"json", 52>>]
    /\ webInterfaceLogs[50].timestamp = 3

====
